---- MODULE Spec2Model ----
\* One invocation of the commute bot (main.py): module load, configuration
\* check, parsing of the user message, the transport and directions calls,
\* the two estimators and the composition of the reply.
EXTENDS Integers, Sequences, FiniteSets, TLC

\* ---------------------------------------------------------------- bounds
\* longest user message, in tokens
MaxMsgLen == 3
\* coordinates are the grid points 0..MaxPos of one meridian
MaxPos == 8
\* message identifiers the transport hands out are 1..MaxMsgId
MaxMsgId == 2

\* ------------------------------------------------------------- utilities
Abs(x) == IF x < 0 THEN -x ELSE x

Min2(a, b) == IF a <= b THEN a ELSE b

SetMin(S) == CHOOSE x \in S : \A y \in S : x <= y

SetMax(S) == CHOOSE x \in S : \A y \in S : x >= y

\* ---------------------------------------------------- the user's message
\* A message is a sequence of tokens: a letter, a blank, or the literal
\* separator " to " taken as one token.
SEP == " to "

Tokens == {"a", " ", SEP}

Letters == {"a", "A"}

Messages == UNION {[1..n -> Tokens] : n \in 0..MaxMsgLen}

\* str.split(sep): the pieces between the occurrences of the separator
RECURSIVE SplitFrom(_, _, _, _)
SplitFrom(msg, i, cur, acc) ==
    IF i > Len(msg) THEN Append(acc, cur)
    ELSE IF msg[i] = SEP THEN SplitFrom(msg, i + 1, <<>>, Append(acc, cur))
    ELSE SplitFrom(msg, i + 1, Append(cur, msg[i]), acc)

\* a split that stops after the first separator (str.split(sep, 1))
SplitOnce(msg) ==
    LET at == {i \in 1..Len(msg) : msg[i] = SEP}
    IN  IF at = {} THEN <<msg>>
        ELSE <<SubSeq(msg, 1, SetMin(at) - 1), SubSeq(msg, SetMin(at) + 1, Len(msg))>>

Split(msg) == SplitFrom(msg, 1, <<>>, <<>>)

\* str.strip(): leading and trailing blanks removed
Strip(s) ==
    LET keep == {i \in 1..Len(s) : s[i] # " "}
    IN  IF keep = {} THEN <<>> ELSE SubSeq(s, SetMin(keep), SetMax(keep))

\* str.title(): a letter is upper case exactly when no letter precedes it
Title(s) ==
    [i \in 1..Len(s) |->
        IF s[i] \in Letters
        THEN (IF i = 1 \/ s[i - 1] \notin Letters THEN "A" ELSE "a")
        ELSE s[i]]

\* urllib.parse.quote_plus: blanks become "+", letters are kept
quote_plus(s) == [i \in 1..Len(s) |-> IF s[i] = " " THEN "+" ELSE s[i]]

\* ------------------------------------------------- the station registry
St(id, name, line, lat) == [id |-> id, name |-> name, line |-> line, lat |-> lat, lon |-> 0]

\* two lines that meet at S7
GoodRegistry ==
    [stations |-> << St(2, "S2", "LineA", 1), St(4, "S4", "LineA", 2),
                     St(7, "S7", "Both", 3), St(10, "S10", "LineA", 4),
                     St(12, "S12", "LineB", 5), St(25, "S25", "LineB", 6) >>,
     interchange |-> "S7"]

\* the same stations, the interchange name matches none of them
BadInterchangeRegistry ==
    [stations |-> GoodRegistry.stations, interchange |-> "Majestic"]

\* two stations share an id, and two share a position
DupIdRegistry ==
    [stations |-> << St(4, "S4", "LineA", 1), St(4, "S4x", "LineA", 2),
                     St(7, "S7", "Both", 3), St(9, "S9", "LineB", 3) >>,
     interchange |-> "S7"]

Registries == {GoodRegistry, BadInterchangeRegistry, DupIdRegistry}

\* what open('metro_data.json') and json.load find on disk
RegistryFiles ==
    {[status |-> "ok", content |-> <<r>>] : r \in Registries}
    \cup {[status |-> s, content |-> <<>>] : s \in {"missing", "unreadable", "invalid"}}

\* ------------------------------------------------------- geo distance
\* Coordinates lie on one meridian, 0.015 degrees of latitude apart, where
\* the haversine distance is R * dLat: 6371 km * 0.015 * pi / 180 = 1668 m.
StepMetres == 1668

TooFarMetres == 3000

haversine(lat1, lon1, lat2, lon2) == StepMetres * Abs(lat2 - lat1)

Coords == {[lat |-> p, lng |-> 0] : p \in 0..MaxPos}

\* min(stations, key = distance): the first station at the least distance
NearestStation(stations, c) ==
    LET d(i) == haversine(c.lat, c.lng, stations[i].lat, stations[i].lon)
        k == CHOOSE i \in 1..Len(stations) :
                 /\ \A j \in 1..(i - 1) : d(j) > d(i)
                 /\ \A j \in (i + 1)..Len(stations) : d(j) >= d(i)
    IN  stations[k]

\* ------------------------------------------------------ metro estimator
\* a fare that is not clamped at 60
FareUnclamped(num_stations) == 10 + (num_stations - 1) * 5

Fare(num_stations) == Min2(10 + (num_stations - 1) * 5, 60)

MetroTime(num_stations) == num_stations * 3 + 15

\* a routing test that forgets the stations serving both lines
IsDirectSameLineOnly(start_station, end_station) ==
    start_station.line = end_station.line

IsDirect(start_station, end_station) ==
    \/ start_station.line = end_station.line
    \/ start_station.line = "Both"
    \/ end_station.line = "Both"

Returned(v) == [raised |-> FALSE, fault |-> "", value |-> v, num_stations |-> -1]

Raised(f) == [raised |-> TRUE, fault |-> f, value |-> <<>>, num_stations |-> -1]

MetroBlock(route_desc, n) ==
    [raised |-> FALSE, fault |-> "", num_stations |-> n,
     value |-> << [block |-> "metro", route_desc |-> route_desc,
                   time |-> MetroTime(n), fare |-> Fare(n)] >>]

\* get_metro_options; data is <<>> for None, <<registry>> otherwise
get_metro_options(origin_coords, dest_coords, data) ==
    IF data = <<>> THEN Returned(<<>>)
    ELSE
    LET stations == data[1].stations
        start_station == NearestStation(stations, origin_coords)
        end_station == NearestStation(stations, dest_coords)
        interchange == data[1].interchange
        found == {i \in 1..Len(stations) : stations[i].name = interchange}
    IN  IF haversine(origin_coords.lat, origin_coords.lng,
                     start_station.lat, start_station.lon) > TooFarMetres
        THEN Returned(<<>>)
        ELSE IF start_station.name = end_station.name THEN Returned(<<>>)
        ELSE IF IsDirect(start_station, end_station)
        THEN MetroBlock(<<start_station.name, end_station.name>>,
                        Abs(start_station.id - end_station.id))
        ELSE IF found = {} THEN Raised("StopIteration")
        ELSE LET interchange_station == stations[SetMin(found)]
             IN  MetroBlock(<<start_station.name, end_station.name, interchange>>,
                            Abs(start_station.id - interchange_station.id)
                            + Abs(interchange_station.id - end_station.id))

\* ------------------------------------------------------- road estimator
\* distance texts are a number token followed by a unit token
NumValue(t) == CASE t = "5" -> 5 [] t = "500" -> 500 [] OTHER -> 0

NumTokens == {"5", "500"}

DistanceTexts == {<<"5", " km">>, <<"500", " m">>}

Legs ==
    [duration : {"25 mins"}, distance : DistanceTexts,
     start_location : Coords, end_location : Coords]

\* overview_polyline is <<>> when the route has none
DirectionsResults ==
    {<<>>}
    \cup {<< [legs |-> <<>>, overview_polyline |-> <<"enc">>] >>}
    \cup {<< [legs |-> <<leg>>, overview_polyline |-> p] >> :
             leg \in Legs, p \in {<<>>, <<"enc">>}}

UnavailableBlock == [block |-> "unavailable"]

\* distance.replace(' km', '')
DropKm(distance) == SelectSeq(distance, LAMBDA t : t # " km")

\* get_cab_auto_options
get_cab_auto_options(directions) ==
    IF directions = <<>> THEN Returned(<<UnavailableBlock>>)
    ELSE IF directions[1].legs = <<>> THEN Raised("IndexError")
    ELSE
    LET leg == directions[1].legs[1]
        number == DropKm(leg.distance)
    IN  IF ~(Len(number) = 1 /\ number[1] \in NumTokens) THEN Raised("ValueError")
        ELSE LET dist_km == NumValue(number[1])
                 auto_fare == 30 + dist_km * 15
                 cab_fare == 70 + dist_km * 20
             IN  Returned(<< [block |-> "cab", duration |-> leg.duration,
                              distance |-> leg.distance,
                              auto_low |-> auto_fare, auto_high |-> auto_fare + 30,
                              cab_low |-> cab_fare, cab_high |-> cab_fare + 50] >>)

\* ------------------------------------------------------------ transport
NoMsgId == 0

MsgIds == 1..MaxMsgId

SearchingText(origin, dest) ==
    [kind |-> "searching", origin |-> Title(origin), dest |-> Title(dest)]

UsageText == [kind |-> "usage", origin |-> <<>>, dest |-> <<>>]

ApologyText == [kind |-> "apology", origin |-> <<>>, dest |-> <<>>]

\* an apology that quotes the fault
ApologyQuoting(fault) == [kind |-> "apology", origin |-> <<fault>>, dest |-> <<>>]

ExceptText(fault) == ApologyText

\* a send that lets a delivery failure escape
send_telegram_message_escalating(outcome, id) ==
    CASE outcome = "ok" -> [raised |-> FALSE, fault |-> "", value |-> id]
      [] outcome = "fail" -> [raised |-> TRUE, fault |-> "RequestException", value |-> NoMsgId]
      [] OTHER -> [raised |-> TRUE, fault |-> "KeyError", value |-> NoMsgId]

\* send_telegram_message: what it returns or raises, by what the API did
send_telegram_message(outcome, id) ==
    CASE outcome = "ok" -> [raised |-> FALSE, fault |-> "", value |-> id]
      [] outcome = "fail" -> [raised |-> FALSE, fault |-> "", value |-> NoMsgId]
      [] OTHER -> [raised |-> TRUE, fault |-> "KeyError", value |-> NoMsgId]

SendOutcomes ==
    {<<"ok", id>> : id \in MsgIds} \cup {<<"fail", NoMsgId>>, <<"badshape", NoMsgId>>}

\* a delete that lets a delivery failure escape
delete_telegram_message_escalating(outcome) == outcome = "fail"

\* delete_telegram_message: TRUE when it raises
delete_telegram_message(outcome) == FALSE

\* send_telegram_photo: TRUE when it raises
send_telegram_photo(outcome) == FALSE

\* ---------------------------------------------------------------- state
VARIABLES pc, env, USER_MESSAGE, registry_file, metro_data, parts,
          origin_loc, dest_loc, searching_msg_id, directions_result,
          cab_info, origin_coords, dest_coords, metro_info, num_stations,
          final_caption, ops, fault

vars == <<pc, env, USER_MESSAGE, registry_file, metro_data, parts,
          origin_loc, dest_loc, searching_msg_id, directions_result,
          cab_info, origin_coords, dest_coords, metro_info, num_stations,
          final_caption, ops, fault>>

inputs == <<env, USER_MESSAGE, registry_file>>

locals == <<parts, origin_loc, dest_loc, searching_msg_id, directions_result,
            cab_info, origin_coords, dest_coords, metro_info, num_stations,
            final_caption>>

EnvNames == {"TELEGRAM_BOT_TOKEN", "GOOGLE_API_KEY", "CHAT_ID"}

NoCoords == [lat |-> -1, lng |-> 0]

Init ==
    /\ pc = "load"
    /\ env \in SUBSET EnvNames
    /\ USER_MESSAGE \in Messages
    /\ registry_file \in RegistryFiles
    /\ metro_data = <<>>
    /\ parts = <<>>
    /\ origin_loc = <<>>
    /\ dest_loc = <<>>
    /\ searching_msg_id = NoMsgId
    /\ directions_result = <<>>
    /\ cab_info = <<>>
    /\ origin_coords = NoCoords
    /\ dest_coords = NoCoords
    /\ metro_info = <<>>
    /\ num_stations = -1
    /\ final_caption = <<>>
    /\ ops = <<>>
    /\ fault = ""

\* ------------------------------------------------------------- actions
\* lines 14-18: only a missing file is caught
LoadRegistry ==
    /\ pc = "load"
    /\ IF registry_file.status = "ok"
       THEN /\ metro_data' = registry_file.content
            /\ pc' = "client"
            /\ fault' = fault
       ELSE IF registry_file.status = "missing"
       THEN /\ metro_data' = <<>>
            /\ pc' = "client"
            /\ fault' = fault
       ELSE /\ metro_data' = metro_data
            /\ pc' = "crashed"
            /\ fault' = IF registry_file.status = "unreadable"
                        THEN "PermissionError" ELSE "JSONDecodeError"
    /\ UNCHANGED <<inputs, locals, ops>>

\* line 20: googlemaps.Client rejects an absent key
MakeClient ==
    /\ pc = "client"
    /\ IF "GOOGLE_API_KEY" \in env
       THEN pc' = "config" /\ fault' = fault
       ELSE pc' = "crashed" /\ fault' = "ValueError"
    /\ UNCHANGED <<inputs, metro_data, locals, ops>>

\* lines 122-124
CheckConfig ==
    /\ pc = "config"
    /\ IF env = EnvNames /\ USER_MESSAGE # <<>>
       THEN pc' = "parse"
       ELSE pc' = "done"
    /\ UNCHANGED <<inputs, metro_data, locals, ops, fault>>

\* lines 126-128
Parse ==
    /\ pc = "parse"
    /\ parts' = Split(USER_MESSAGE)
    /\ IF Len(parts') = 2
       THEN /\ origin_loc' = Strip(parts'[1])
            /\ dest_loc' = Strip(parts'[2])
            /\ pc' = "status"
       ELSE /\ UNCHANGED <<origin_loc, dest_loc>>
            /\ pc' = "usage"
    /\ UNCHANGED <<inputs, metro_data, searching_msg_id, directions_result,
                   cab_info, origin_coords, dest_coords, metro_info,
                   num_stations, final_caption, ops, fault>>

\* line 131
SendSearching ==
    /\ pc = "status"
    /\ \E o \in SendOutcomes :
         LET r == send_telegram_message(o[1], o[2])
         IN  /\ ops' = Append(ops, [op |-> "sendMessage",
                                    arg |-> SearchingText(origin_loc, dest_loc),
                                    outcome |-> o[1], ret |-> r.value])
             /\ IF r.raised
                THEN pc' = "except" /\ fault' = r.fault
                     /\ searching_msg_id' = searching_msg_id
                ELSE pc' = "lookup" /\ fault' = fault
                     /\ searching_msg_id' = r.value
    /\ UNCHANGED <<inputs, metro_data, parts, origin_loc, dest_loc,
                   directions_result, cab_info, origin_coords, dest_coords,
                   metro_info, num_stations, final_caption>>

\* lines 134-135
Lookup ==
    /\ pc = "lookup"
    /\ \/ /\ ops' = Append(ops, [op |-> "directions",
                                 arg |-> <<origin_loc, dest_loc>>,
                                 outcome |-> "error", ret |-> NoMsgId])
          /\ pc' = "except"
          /\ fault' = "ApiError"
          /\ directions_result' = directions_result
       \/ \E d \in DirectionsResults :
            /\ ops' = Append(ops, [op |-> "directions",
                                   arg |-> <<origin_loc, dest_loc>>,
                                   outcome |-> "ok", ret |-> NoMsgId])
            /\ pc' = "cab"
            /\ fault' = fault
            /\ directions_result' = d
    /\ UNCHANGED <<inputs, metro_data, parts, origin_loc, dest_loc,
                   searching_msg_id, cab_info, origin_coords, dest_coords,
                   metro_info, num_stations, final_caption>>

\* line 137
CabInfo ==
    /\ pc = "cab"
    /\ LET r == get_cab_auto_options(directions_result)
       IN  IF r.raised
           THEN pc' = "except" /\ fault' = r.fault /\ cab_info' = cab_info
           ELSE pc' = "coords" /\ fault' = fault /\ cab_info' = r.value
    /\ UNCHANGED <<inputs, metro_data, parts, origin_loc, dest_loc,
                   searching_msg_id, directions_result, origin_coords,
                   dest_coords, metro_info, num_stations, final_caption, ops>>

\* lines 139-140
ReadCoords ==
    /\ pc = "coords"
    /\ IF directions_result = <<>> \/ directions_result[1].legs = <<>>
       THEN /\ pc' = "except"
            /\ fault' = "IndexError"
            /\ UNCHANGED <<origin_coords, dest_coords>>
       ELSE /\ pc' = "metro"
            /\ fault' = fault
            /\ origin_coords' = directions_result[1].legs[1].start_location
            /\ dest_coords' = directions_result[1].legs[1].end_location
    /\ UNCHANGED <<inputs, metro_data, parts, origin_loc, dest_loc,
                   searching_msg_id, directions_result, cab_info, metro_info,
                   num_stations, final_caption, ops>>

\* line 141
MetroInfo ==
    /\ pc = "metro"
    /\ LET r == get_metro_options(origin_coords, dest_coords, metro_data)
       IN  IF r.raised
           THEN /\ pc' = "except"
                /\ fault' = r.fault
                /\ UNCHANGED <<metro_info, num_stations>>
           ELSE /\ pc' = "compose"
                /\ fault' = fault
                /\ metro_info' = r.value
                /\ num_stations' = r.num_stations
    /\ UNCHANGED <<inputs, metro_data, parts, origin_loc, dest_loc,
                   searching_msg_id, directions_result, cab_info,
                   origin_coords, dest_coords, final_caption, ops>>

HeaderBlock(origin, dest) ==
    [block |-> "header", origin |-> Title(origin), dest |-> Title(dest)]

\* lines 144-147: the metro block is appended only when it is not empty
Caption(origin, dest, cab, metro) ==
    <<HeaderBlock(origin, dest)>> \o cab \o (IF metro # <<>> THEN metro ELSE <<>>)

\* lines 150-151
InlineKeyboard(origin, dest) ==
    [text |-> "View Route on Google Maps",
     origin |-> quote_plus(origin), destination |-> quote_plus(dest)]

\* lines 155-161
StaticMapUrl(o, d, points) == [origin |-> o.lat, dest |-> d.lat, path |-> points]

\* lines 144-161
Compose ==
    /\ pc = "compose"
    /\ final_caption' = Caption(origin_loc, dest_loc, cab_info, metro_info)
    /\ IF directions_result[1].overview_polyline = <<>>
       THEN pc' = "except" /\ fault' = "KeyError"
       ELSE pc' = "delete" /\ fault' = fault
    /\ UNCHANGED <<inputs, metro_data, parts, origin_loc, dest_loc,
                   searching_msg_id, directions_result, cab_info,
                   origin_coords, dest_coords, metro_info, num_stations, ops>>

\* lines 164-165
DeleteSearching ==
    /\ pc = "delete"
    /\ \/ /\ searching_msg_id # NoMsgId
          /\ \E o \in {"ok", "fail"} :
               /\ ops' = Append(ops, [op |-> "deleteMessage",
                                      arg |-> searching_msg_id, outcome |-> o,
                                      ret |-> NoMsgId])
               /\ IF delete_telegram_message(o)
                  THEN pc' = "except" /\ fault' = "RequestException"
                  ELSE pc' = "photo" /\ fault' = fault
       \/ /\ searching_msg_id = NoMsgId
          /\ pc' = "photo"
          /\ UNCHANGED <<ops, fault>>
    /\ UNCHANGED <<inputs, metro_data, locals>>

\* line 168
SendPhoto ==
    /\ pc = "photo"
    /\ \E o \in {"ok", "fail"} :
         /\ ops' = Append(ops,
               [op |-> "sendPhoto",
                arg |-> [caption |-> final_caption,
                         photo |-> StaticMapUrl(origin_coords, dest_coords,
                                       directions_result[1].overview_polyline),
                         keyboard |-> InlineKeyboard(origin_loc, dest_loc)],
                outcome |-> o, ret |-> NoMsgId])
         /\ IF send_telegram_photo(o)
            THEN pc' = "except" /\ fault' = "RequestException"
            ELSE pc' = "done" /\ fault' = fault
    /\ UNCHANGED <<inputs, metro_data, locals>>

\* line 171
SendUsage ==
    /\ pc = "usage"
    /\ \E o \in {"ok", "fail", "badshape"} :
         LET r == send_telegram_message(o, 1)
         IN  /\ ops' = Append(ops, [op |-> "sendMessage", arg |-> UsageText,
                                    outcome |-> o, ret |-> r.value])
             /\ IF r.raised
                THEN pc' = "except" /\ fault' = r.fault
                ELSE pc' = "done" /\ fault' = fault
    /\ UNCHANGED <<inputs, metro_data, locals>>

\* lines 172-174: a fault inside the handler ends the process
Except ==
    /\ pc = "except"
    /\ \E o \in {"ok", "fail", "badshape"} :
         LET r == send_telegram_message(o, 1)
         IN  /\ ops' = Append(ops, [op |-> "sendMessage",
                                    arg |-> ExceptText(fault), outcome |-> o,
                                    ret |-> r.value])
             /\ IF r.raised
                THEN pc' = "crashed"
                ELSE pc' = "done"
    /\ UNCHANGED <<inputs, metro_data, locals, fault>>

Next ==
    \/ LoadRegistry
    \/ MakeClient
    \/ CheckConfig
    \/ Parse
    \/ SendSearching
    \/ Lookup
    \/ CabInfo
    \/ ReadCoords
    \/ MetroInfo
    \/ Compose
    \/ DeleteSearching
    \/ SendPhoto
    \/ SendUsage
    \/ Except

Spec == Init /\ [][Next]_vars

TypeOK == pc \in {"load", "client", "config", "parse", "status", "lookup",
                  "cab", "coords", "metro", "compose", "delete", "photo",
                  "usage", "except", "done", "crashed"}

\* ======================================================= the claims
Terminal == pc \in {"done", "crashed"}

SepCount(msg) == Cardinality({i \in 1..Len(msg) : msg[i] = SEP})

ConfigOK == env = EnvNames /\ USER_MESSAGE # <<>>

IsSend(o, kind) == o.op = "sendMessage" /\ o.arg.kind = kind

Sends(kind) == {i \in 1..Len(ops) : IsSend(ops[i], kind)}

OpsNamed(name) == {i \in 1..Len(ops) : ops[i].op = name}

LastOp == ops[Len(ops)]

\* the lookup returned this run's directions_result
LookupReturned == \E i \in OpsNamed("directions") : ops[i].outcome = "ok"

\* the run ended by sending the composed photo and never apologised
DeliveredWith(cab) ==
    /\ cab_info = cab
    /\ ops # <<>>
    /\ LastOp.op = "sendPhoto"
    /\ LastOp.arg.caption = <<HeaderBlock(origin_loc, dest_loc)>> \o cab
    /\ Sends("apology") = {}

\* C1: when the directions provider returns an empty result for a
\* well-formed query, the road estimate is the "unavailable" string, the
\* caption has no metro block, and the run ends by sending the composed
\* photo, not the apology.
C1_EmptyResultRecovered ==
    (Terminal /\ SepCount(USER_MESSAGE) = 1 /\ LookupReturned
     /\ directions_result = <<>>)
    => DeliveredWith(<<UnavailableBlock>>)

\* C2 as stated: a message that does not hold exactly one separator gets
\* exactly one usage message and nothing else: no searching message, no
\* lookup, no deletion, no photo, no apology.
C2_OnlyUsage ==
    (ConfigOK /\ SepCount(USER_MESSAGE) # 1)
    => /\ Len(ops) <= 1
       /\ \A i \in 1..Len(ops) : IsSend(ops[i], "usage")
       /\ pc = "done" => Len(ops) = 1

\* C2, amended: a message that does not hold exactly one separator never
\* gets a searching message, a lookup, a deletion or a photo; the first
\* transport operation is the usage message, attempted once, and the only
\* thing that can follow it is one apology, sent exactly when the usage
\* send raised on an unexpected response shape.
C2_UsageThenOnlyApologyOnBadShape ==
    SepCount(USER_MESSAGE) # 1
    => /\ Len(ops) <= 2
       /\ Len(ops) >= 1 => IsSend(ops[1], "usage")
       /\ Len(ops) = 2 => ops[1].outcome = "badshape" /\ IsSend(ops[2], "apology")
       /\ (Terminal /\ parts # <<>>)
          => (Len(ops) = 2 <=> ops[1].outcome = "badshape") /\ Len(ops) >= 1

C2_Witness ==
    /\ pc = "done"
    /\ SepCount(USER_MESSAGE) >= 2
    /\ Len(ops) = 1
    /\ IsSend(ops[1], "usage")

\* the composition of the reply succeeded (it fails only without a polyline)
ComposeSucceeded ==
    /\ pc \in {"delete", "photo", "done", "crashed", "except"}
    /\ final_caption # <<>>
    /\ directions_result # <<>>
    /\ directions_result[1].overview_polyline # <<>>

\* C3: with a well-formed query whose lookup and composition succeed, the
\* searching message is attempted first, then the lookup; the deletion
\* happens exactly when the searching send returned an identifier, after
\* the lookup and before the photo; the photo send is attempted exactly
\* once and is the last transport operation, whatever the deletion did.
C3_TransportOrder ==
    (SepCount(USER_MESSAGE) = 1 /\ ComposeSucceeded)
    => /\ pc # "except"
       /\ Sends("searching") = {1}
       /\ OpsNamed("directions") = {2}
       /\ \A d \in OpsNamed("deleteMessage") :
             d = 3 /\ ops[1].ret # NoMsgId /\ ops[d].arg = ops[1].ret
       /\ pc \in {"photo", "done", "crashed"}
          => (OpsNamed("deleteMessage") # {} <=> ops[1].ret # NoMsgId)
       /\ pc \in {"delete", "photo"} => OpsNamed("sendPhoto") = {}
       /\ Terminal => /\ OpsNamed("sendPhoto") = {Len(ops)}
                      /\ pc = "done"

C3_Witness ==
    /\ pc = "done"
    /\ SepCount(USER_MESSAGE) = 1
    /\ ComposeSucceeded
    /\ Len(ops) = 4
    /\ ops[3].op = "deleteMessage"
    /\ ops[3].outcome = "fail"
    /\ ops[4].op = "sendPhoto"

\* a fault was raised after the configuration check
FaultInProcessing == fault # "" /\ parts # <<>>

\* C4: every fault raised after the configuration check leads to exactly
\* one attempt to send the fixed apology text, the same for every fault,
\* and to no photo.
C4_OneFixedApology ==
    FaultInProcessing
    => /\ OpsNamed("sendPhoto") = {}
       /\ pc \in {"except", "done", "crashed"}
       /\ pc = "except" => Sends("apology") = {}
       /\ Terminal => /\ Sends("apology") = {Len(ops)}
                      /\ LastOp.arg = ApologyText

C4_Witness ==
    /\ pc = "done"
    /\ fault = "ApiError"
    /\ Sends("apology") = {3}
    /\ ops[3].arg = ApologyText

\* C5: however the registry fails to load (file missing, unreadable or not
\* JSON), the request is still answered, and a run whose lookup returned a
\* usable route ends with the photo whose caption is the header and the
\* road estimate, without a metro block.
C5_LoadFailureNeverPreventsResponse ==
    (Terminal /\ ConfigOK /\ registry_file.status # "ok")
    => /\ ops # <<>>
       /\ (LookupReturned /\ cab_info # <<>> /\ cab_info # <<UnavailableBlock>>
           /\ directions_result[1].overview_polyline # <<>>)
          => DeliveredWith(cab_info)

InterchangeMissing ==
    /\ metro_data # <<>>
    /\ \A i \in 1..Len(metro_data[1].stations) :
          metro_data[1].stations[i].name # metro_data[1].interchange

\* C6: an interchange name that matches no station is never met per
\* request: no run sends the searching message, performs the lookup and
\* then apologises because the interchange lookup failed in the estimator.
C6_InterchangeNeverPerRequest ==
    ~ /\ InterchangeMissing
      /\ fault = "StopIteration"
      /\ Sends("searching") # {}
      /\ OpsNamed("directions") # {}
      /\ Sends("apology") # {}

\* the first route has no leg, or its distance is not "<number> km"
UnusableLeg ==
    /\ directions_result # <<>>
    /\ \/ directions_result[1].legs = <<>>
       \/ directions_result[1].legs[1].distance[2] # " km"

\* C7: a leg whose distance is not "<number> km", or a route without a
\* leg, gives the "unavailable" road estimate and a delivered response,
\* not the apology.
C7_UnusableLegRecovered ==
    (Terminal /\ LookupReturned /\ UnusableLeg)
    => DeliveredWith(<<UnavailableBlock>>)

\* get_metro_options returned in this run
MetroReturned ==
    /\ origin_coords # NoCoords
    /\ pc # "metro"
    /\ fault # "StopIteration"

\* C8: for nearest stations that pass the 3 km and same-name checks the
\* route is direct exactly when they share a line or one serves both, with
\* |start.id - end.id| stops and a description of start and end only;
\* otherwise it goes via the interchange, with
\* |start.id - interchange.id| + |interchange.id - end.id| stops and a
\* description that also names the interchange.
C8_RoutingMode ==
    (MetroReturned /\ metro_data # <<>>)
    => LET stations == metro_data[1].stations
           s == NearestStation(stations, origin_coords)
           e == NearestStation(stations, dest_coords)
           passes == /\ StepMetres * Abs(s.lat - origin_coords.lat) <= TooFarMetres
                     /\ s.name # e.name
           direct == s.line = e.line \/ s.line = "Both" \/ e.line = "Both"
       IN  /\ passes <=> metro_info # <<>>
           /\ (passes /\ direct)
              => /\ num_stations = Abs(s.id - e.id)
                 /\ metro_info[1].route_desc = <<s.name, e.name>>
           /\ (passes /\ ~direct)
              => \E k \in 1..Len(stations) :
                    /\ stations[k].name = metro_data[1].interchange
                    /\ num_stations = Abs(s.id - stations[k].id)
                                      + Abs(stations[k].id - e.id)
                    /\ metro_info[1].route_desc
                       = <<s.name, e.name, metro_data[1].interchange>>

\* ids 2 and 12 on different lines, interchange id 7: ten stops, via S7
C8_Witness ==
    /\ MetroReturned
    /\ metro_info # <<>>
    /\ num_stations = 10
    /\ metro_info[1].route_desc = <<"S2", "S12", "S7">>

UniqueIdsAndNames(registry) ==
    \A i, j \in 1..Len(registry.stations) :
        i # j => /\ registry.stations[i].id # registry.stations[j].id
                 /\ registry.stations[i].name # registry.stations[j].name

\* C9: with unique station ids and names every metro estimate has a stop
\* count n >= 1 and the fare min(10 + (n-1)*5, 60): between 10 and 60,
\* not below the fare of any smaller count, and 60 exactly when n >= 11.
C9_FareClamped ==
    (metro_info # <<>> /\ UniqueIdsAndNames(metro_data[1]))
    => LET n == num_stations
           fare == metro_info[1].fare
       IN  /\ n >= 1
           /\ fare = (IF 10 + (n - 1) * 5 < 60 THEN 10 + (n - 1) * 5 ELSE 60)
           /\ fare >= 10 /\ fare <= 60
           /\ fare = 60 <=> n >= 11
           /\ \A m \in 1..n : Fare(m) <= fare

C9_Witness ==
    /\ metro_info # <<>>
    /\ UniqueIdsAndNames(metro_data[1])
    /\ num_stations = 13
    /\ metro_info[1].fare = 60

IsFailedSend(o) == o.op \in {"sendMessage", "sendPhoto"} /\ o.outcome = "fail"

\* C10: a send that fails to deliver is not retried and does not lead to
\* the apology; after a failed photo, usage or apology send nothing more
\* is attempted and the run is over; after a failed searching send the
\* run goes on to the lookup and never deletes.
C10_DeliveryFailureOnlyLogged ==
    \A i \in 1..Len(ops) :
        IsFailedSend(ops[i])
        => /\ \A j \in (i + 1)..Len(ops) :
                 ~(ops[j].op = ops[i].op /\ ops[j].arg = ops[i].arg)
           /\ i < Len(ops) => ~IsSend(ops[i + 1], "apology")
           /\ i = Len(ops) => pc \in {"lookup", "done"}
           /\ IF IsSend(ops[i], "searching")
              THEN /\ i = Len(ops) => pc = "lookup"
                   /\ i < Len(ops) => ops[i + 1].op = "directions"
                   /\ OpsNamed("deleteMessage") = {}
              ELSE i = Len(ops) /\ pc = "done"

C10_Witness ==
    /\ pc = "done"
    /\ Len(ops) = 3
    /\ IsSend(ops[1], "searching")
    /\ ops[1].outcome = "fail"
    /\ ops[3].op = "sendPhoto"
    /\ ops[3].outcome = "fail"
====
